---- MODULE Spec2Model ----
(***************************************************************************)
(* Model of eagle_eye_tester.py: the credential exchange (get_auth_key),   *)
(* the playback request (make_playback_request), the reconnecting stream   *)
(* reader (stream_repeatedly), the latency sampler (test_latency) and the  *)
(* part of main that turns their outcome into the process exit status.     *)
(*                                                                         *)
(* Every blocking call (the two POSTs, the GET, one chunk read, the 1-byte *)
(* read, a sleep) is one step; the HTTP status, the cookie, the chunk      *)
(* length and the measured wall-clock differences are inputs of the step.  *)
(* Wall-clock differences are integers in microseconds, so int(x * 1000)   *)
(* of a difference x in seconds is the integer division by 1000.           *)
(***************************************************************************)
EXTENDS Integers, Sequences, FiniteSets, TLC

\* ---- bounds of the model -------------------------------------------------
MaxExchanges == 2
MaxChunks == 3
MaxRuns == 3
\* resolution of the wall clock: ticks in one second
TicksPerSecond == 2

\* ---- program constants ---------------------------------------------------
CHUNK_SIZE == 10240
SLOW_FETCH_THRESHOLD_MS == 5000
PROGRESS_EVERY == 100
HTTP_OK == 200
DEFAULT_DELAY_BETWEEN_RUNS_SECONDS == 60
\* Python's None, as the value of a missing auth_key cookie and of an
\* unassigned playback_stream; tokens and stream handles are 1, 2, ...
None == 0

\* ---- inputs --------------------------------------------------------------
HttpStatuses == {200, 401, 503}
\* config['cameras'], in insertion order
Registries == {<<>>, <<"front">>, <<"front", "back">>}
\* config['delay_between_runs_seconds']; only test_latency reads it, so the
\* stream command is started with the default
Delays == {0, DEFAULT_DELAY_BETWEEN_RUNS_SECONDS}
\* len(i) of a chunk yielded by iter_content(CHUNK_SIZE)
ChunkLens == {5000, CHUNK_SIZE}
\* fetch_end - fetch_start, in microseconds
FetchTimesUs == {10000, 20000, 4999999, 5000000, 6000000}
\* end_time - start_time of one first-byte fetch, in microseconds
LoadTimesUs == {100000, 200000, 300000}

VARIABLES
  cmd,                        \* args.command[0]: "stream" or "latency"
  cameras,                    \* config['cameras'] as the sequence of its names
  camera_name,                \* args.command[1] of the stream command
  runs,                       \* int(args.command[1]) of the latency command
  delay_between_runs_seconds, \* config['delay_between_runs_seconds']
  pc,                         \* the blocking call the program is at
  exchanges,                  \* number of get_auth_key calls started
  auth_key,                   \* local auth_key of the running command
  playback_stream,            \* local playback_stream: None or a handle
  closes,                     \* closes[h]: number of close() calls on handle h
  failed_iterations,          \* stream_repeatedly's failed_iterations
  counter,                    \* stream_repeatedly's counter
  total_size,                 \* stream_repeatedly's total_size
  chunks,                     \* chunks read in the current session
  printed,                    \* lines printed by the current session
  i,                          \* test_latency's round index
  cam,                        \* position of test_latency's camera loop
  load_times,                 \* test_latency's load_times
  report,                     \* the report lines printed by test_latency
  trace,                      \* requests, sleeps and closes, in order
  exc,                        \* the exception that reached main
  exit_code,                  \* the process exit status
  now,                        \* time.time() at the last playback request, in ticks
  start_time                  \* make_playback_request's start_time of that call

cfgvars == <<cmd, cameras, camera_name, runs, delay_between_runs_seconds>>
sessionvars == <<failed_iterations, counter, total_size, chunks, printed>>
latencyvars == <<i, cam, load_times, report>>
clockvars == <<now, start_time>>
vars == <<cfgvars, pc, exchanges, auth_key, playback_stream, closes,
          sessionvars, latencyvars, trace, exc, exit_code, clockvars>>

\* ---- helpers -------------------------------------------------------------
Ev(ev, camera, key, n) == [ev |-> ev, cam |-> camera, key |-> key, n |-> n]

Range(s) == {s[x] : x \in DOMAIN s}

\* int(seconds * 1000) of a non-negative difference given in microseconds
IntMs(us) == us \div 1000

RECURSIVE SumLens(_)
SumLens(s) == IF s = <<>> THEN 0 ELSE s[1].len + SumLens(Tail(s))

RECURSIVE SumSeq(_)
SumSeq(s) == IF s = <<>> THEN 0 ELSE s[1] + SumSeq(Tail(s))

\* main: what the exception handlers around the command turn e into
main_exit_code(command, e) ==
  IF e = "none" THEN "0"
  ELSE IF e = "KeyboardInterrupt"
       THEN (IF command = "stream" THEN "0" ELSE "uncaught")
       ELSE "-1"

\* an exception (or a plain return, e = "none") leaves the command and main
Propagate(e) ==
  /\ pc' = "exited"
  /\ exc' = e
  /\ exit_code' = main_exit_code(cmd, e)

\* ---- Init: main has parsed the command line and the config ---------------
Init ==
  /\ cmd \in {"stream", "latency"}
  /\ cameras \in Registries
  /\ IF cmd = "stream"
     THEN /\ camera_name \in Range(cameras)
          /\ runs = 0
          /\ delay_between_runs_seconds = DEFAULT_DELAY_BETWEEN_RUNS_SECONDS
     ELSE /\ camera_name = ""
          /\ runs \in 1..MaxRuns
          /\ delay_between_runs_seconds \in Delays
  /\ pc = "authenticate"
  /\ exchanges = 0
  /\ auth_key = None
  /\ playback_stream = None
  /\ closes = <<>>
  /\ failed_iterations = 0
  /\ counter = 0
  /\ total_size = 0
  /\ chunks = <<>>
  /\ printed = <<>>
  /\ i = 0
  /\ cam = 0
  /\ load_times = [c \in Range(cameras) |-> <<>>]
  /\ report = <<>>
  /\ trace = <<>>
  /\ exc = "none"
  /\ exit_code = "running"
  /\ now = 0
  /\ start_time = 0

\* ---- get_auth_key (lines 46-75) ------------------------------------------
\* line 61
AuthenticateFailed_ignored(status) == FALSE

AuthenticateFailed(status) == status # HTTP_OK

\* lines 57-63: the authenticate POST; a status other than 200 raises
Authenticate ==
  /\ pc = "authenticate"
  /\ exchanges < MaxExchanges
  /\ exchanges' = exchanges + 1
  /\ \E status \in HttpStatuses :
       /\ trace' = Append(trace, Ev("authenticate", "", None, status))
       /\ IF AuthenticateFailed(status)
          THEN Propagate("Authentication failed")
          ELSE pc' = "authorize" /\ UNCHANGED <<exc, exit_code>>
  /\ UNCHANGED <<cfgvars, clockvars, auth_key, playback_stream, closes,
                 sessionvars, latencyvars>>

\* line 110: the streamer's test of the returned key
AuthKeyMissing_never(key) == FALSE

AuthKeyMissing(key) == key = None

\* lines 69-75: the authorize POST and the cookie it returns, followed by the
\* caller's code up to its next blocking call: lines 110-112 of
\* stream_repeatedly, lines 150-153 of test_latency
Authorize ==
  /\ pc = "authorize"
  /\ \E status \in HttpStatuses, cookie \in {None, exchanges} :
       /\ trace' = Append(trace, Ev("authorize", "", cookie, status))
       /\ IF status # HTTP_OK
          THEN /\ Propagate("Authorization failed")
               /\ UNCHANGED <<auth_key, latencyvars>>
          ELSE /\ auth_key' = cookie
               /\ IF cmd = "stream"
                  THEN /\ IF AuthKeyMissing(cookie)
                          THEN Propagate("none")
                          ELSE pc' = "playback" /\ UNCHANGED <<exc, exit_code>>
                       /\ UNCHANGED latencyvars
                  ELSE /\ load_times' = [c \in Range(cameras) |-> <<>>]
                       /\ i' = 0
                       /\ pc' = "round"
                       /\ UNCHANGED <<cam, report, exc, exit_code>>
  /\ UNCHANGED <<cfgvars, clockvars, exchanges, playback_stream, closes,
                 sessionvars>>

\* ---- make_playback_request (lines 77-101) --------------------------------
\* The GET of line 94 answers `status` with response object `handle`; the
\* function raises on a status other than 200 and returns the response
\* otherwise.
make_playback_request_none(key, camera, status, handle) ==
  [request |-> Ev("playback", camera, key, status),
   raised |-> FALSE,
   value |-> IF status # HTTP_OK THEN None ELSE handle]

\* line 83: int(time.time()) of a wall clock that reads t ticks
StartTime_float(t) == t

StartTime(t) == t \div TicksPerSecond

\* fetch durations of a session, summed, in microseconds
RECURSIVE SumUs(_)
SumUs(s) == IF s = <<>> THEN 0 ELSE s[1].us + SumUs(Tail(s))

\* The ticks by which the wall clock has advanced between the previous call
\* of make_playback_request (the start of the process, for the first call)
\* and this one; TicksPerSecond stands for a second or more, which is what
\* has passed when the code in between is known to have taken that long.
Gaps(a_second_passed) ==
  IF a_second_passed THEN {TicksPerSecond}
  ELSE IF \A x \in DOMAIN trace : trace[x].ev # "playback"
       THEN 0..TicksPerSecond
       ELSE 1..TicksPerSecond

make_playback_request_unchecked(key, camera, status, handle) ==
  [request |-> Ev("playback", camera, key, status),
   raised |-> FALSE,
   value |-> handle]

make_playback_request(key, camera, status, handle) ==
  [request |-> Ev("playback", camera, key, status),
   raised |-> status # HTTP_OK,
   value |-> IF status # HTTP_OK THEN None ELSE handle]

\* ---- stream_repeatedly (lines 103-141) -----------------------------------
\* lines 108-109: the head of the loop, where every iteration starts
LoopHead_cached == "playback"

LoopHead == "authenticate"

\* lines 113-126: the playback request, the backoff branch, the session start
StreamOpen ==
  /\ cmd = "stream"
  /\ pc = "playback"
  /\ \E gap \in Gaps(SumUs(chunks) >= 1000000) :
       /\ now' = now + gap
       /\ start_time' = StartTime(now + gap)
  /\ \E status \in HttpStatuses :
       LET r == make_playback_request(auth_key, camera_name, status,
                                      Len(closes) + 1)
       IN IF r.raised
          THEN /\ trace' = Append(trace, r.request)
               /\ Propagate("Playback failed")
               /\ UNCHANGED <<playback_stream, closes, sessionvars>>
          ELSE IF r.value = None
          THEN LET sleep_duration == 1 * 2 ^ failed_iterations
               IN /\ failed_iterations' = failed_iterations + 1
                  /\ trace' = trace \o <<r.request,
                                         Ev("sleep", "", None, sleep_duration)>>
                  /\ playback_stream' = None
                  /\ pc' = LoopHead
                  /\ UNCHANGED <<closes, counter, total_size, chunks, printed,
                                 exc, exit_code>>
          ELSE /\ trace' = Append(trace, r.request)
               /\ playback_stream' = r.value
               /\ closes' = Append(closes, 0)
               /\ failed_iterations' = 0
               /\ counter' = 1
               /\ total_size' = 0
               /\ chunks' = <<>>
               /\ printed' = <<>>
               /\ pc' = "streaming"
               /\ UNCHANGED <<exc, exit_code>>
  /\ UNCHANGED <<cfgvars, exchanges, auth_key, latencyvars>>

\* line 128
AddChunk_full(total, len) == total + CHUNK_SIZE

AddChunk(total, len) == total + len

\* line 131
IsSlow_strict(fetch_duration) == fetch_duration > SLOW_FETCH_THRESHOLD_MS

IsSlow(fetch_duration) == fetch_duration >= SLOW_FETCH_THRESHOLD_MS

\* lines 127-137: one iteration of the chunk loop
ReadChunk ==
  /\ cmd = "stream"
  /\ pc = "streaming"
  /\ Len(chunks) < MaxChunks
  /\ \E len \in ChunkLens, us \in FetchTimesUs :
       LET size == AddChunk(total_size, len)
           fetch_duration == IntMs(us)
           slow == IF IsSlow(fetch_duration)
                   THEN <<[kind |-> "slow", chunk |-> counter,
                           n |-> fetch_duration]>>
                   ELSE <<>>
           progress == IF counter % PROGRESS_EVERY = 0
                       THEN <<[kind |-> "progress", chunk |-> counter,
                               n |-> size]>>
                       ELSE <<>>
       IN /\ total_size' = size
          /\ printed' = printed \o slow \o progress
          /\ chunks' = Append(chunks, [seq |-> counter, len |-> len, us |-> us])
          /\ counter' = counter + 1
  /\ UNCHANGED <<cfgvars, clockvars, pc, exchanges, auth_key,
                 playback_stream, closes, failed_iterations, latencyvars, trace, exc, exit_code>>

\* lines 138-141 and back to line 109: the iterator is exhausted
EndOfStream_backoff ==
  /\ cmd = "stream"
  /\ pc = "streaming"
  /\ printed' = Append(printed, [kind |-> "summary", chunk |-> counter - 1,
                                 n |-> total_size])
  /\ closes' = [closes EXCEPT ![playback_stream] = @ + 1]
  /\ trace' = trace \o <<Ev("close", camera_name, None, playback_stream),
                          Ev("sleep", "", None, 1 * 2 ^ failed_iterations)>>
  /\ failed_iterations' = failed_iterations + 1
  /\ pc' = LoopHead
  /\ UNCHANGED <<cfgvars, clockvars, exchanges, auth_key, playback_stream,
                 counter, total_size, chunks, latencyvars, exc, exit_code>>

EndOfStream ==
  /\ cmd = "stream"
  /\ pc = "streaming"
  /\ printed' = Append(printed, [kind |-> "summary", chunk |-> counter - 1,
                                 n |-> total_size])
  /\ closes' = [closes EXCEPT ![playback_stream] = @ + 1]
  /\ trace' = Append(trace, Ev("close", camera_name, None, playback_stream))
  /\ pc' = LoopHead
  /\ UNCHANGED <<cfgvars, clockvars, exchanges, auth_key, playback_stream,
                 failed_iterations, counter, total_size, chunks, latencyvars,
                 exc, exit_code>>

\* line 127: iter_content raises (connection reset, timeout); nothing in
\* stream_repeatedly catches it
StreamError ==
  /\ cmd = "stream"
  /\ pc = "streaming"
  /\ trace' = Append(trace, Ev("io_error", camera_name, None, playback_stream))
  /\ Propagate("IOError")
  /\ UNCHANGED <<cfgvars, clockvars, exchanges, auth_key, playback_stream,
                 closes, sessionvars, latencyvars>>

\* ---- KeyboardInterrupt ---------------------------------------------------
\* Ctrl+C during any blocking call; lines 258-260 catch it for the stream
\* command, nothing catches it for the latency command
Interrupt ==
  /\ pc # "exited"
  /\ Propagate("KeyboardInterrupt")
  /\ UNCHANGED <<cfgvars, clockvars, exchanges, auth_key, playback_stream,
                 closes, sessionvars, latencyvars, trace>>

\* ---- test_latency (lines 143-180) ----------------------------------------
\* line 154: the head of the round loop
RoundLoopHead_reauth == "authenticate"

RoundLoopHead == "round"

\* line 155
SleepsBefore_always(round) == TRUE

SleepsBefore(round) == round > 0

\* lines 154-160: the head of round i, with the sleep before every round but
\* the first, up to the first playback request of the round
RoundStart ==
  /\ cmd = "latency"
  /\ pc = "round"
  /\ i < runs
  /\ trace' = IF SleepsBefore(i)
              THEN Append(trace, Ev("sleep", "", None,
                                    delay_between_runs_seconds))
              ELSE trace
  /\ IF cameras = <<>>
     THEN i' = i + 1 /\ UNCHANGED <<pc, cam>>
     ELSE cam' = 1 /\ pc' = "playback" /\ UNCHANGED i
  /\ UNCHANGED <<cfgvars, clockvars, exchanges, auth_key, playback_stream,
                 closes, sessionvars, load_times, report, exc, exit_code>>

\* lines 161-162: the playback request for camera number cam of round i
LatencyOpen ==
  /\ cmd = "latency"
  /\ pc = "playback"
  /\ \E gap \in Gaps(cam = 1 /\ i > 0 /\ delay_between_runs_seconds >= 1) :
       /\ now' = now + gap
       /\ start_time' = StartTime(now + gap)
  /\ \E status \in HttpStatuses :
       LET r == make_playback_request(auth_key, cameras[cam], status,
                                      Len(closes) + 1)
       IN /\ trace' = Append(trace, r.request)
          /\ IF r.raised
             THEN /\ Propagate("Playback failed")
                  /\ UNCHANGED <<playback_stream, closes>>
             ELSE /\ playback_stream' = r.value
                  /\ closes' = IF r.value = None THEN closes
                               ELSE Append(closes, 0)
                  /\ pc' = "read_first_byte"
                  /\ UNCHANGED <<exc, exit_code>>
  /\ UNCHANGED <<cfgvars, exchanges, auth_key, sessionvars, latencyvars>>

\* line 169
AppendSample_overwrite(lt, camera, load_time) ==
  [lt EXCEPT ![camera] = <<load_time>>]

AppendSample(lt, camera, load_time) ==
  [lt EXCEPT ![camera] = Append(@, load_time)]

\* lines 163-169 and the loop heads of lines 160 and 154: the 1-byte read,
\* the close, the sample, and the move to the next camera or the next round
ReadFirstByte ==
  /\ cmd = "latency"
  /\ pc = "read_first_byte"
  /\ \E ok \in BOOLEAN, load_time \in LoadTimesUs :
       IF playback_stream # None /\ ~ok
       THEN /\ trace' = Append(trace, Ev("io_error", cameras[cam], None,
                                         playback_stream))
            /\ Propagate("IOError")
            /\ UNCHANGED <<closes, latencyvars>>
       ELSE /\ IF playback_stream # None
               THEN /\ closes' = [closes EXCEPT ![playback_stream] = @ + 1]
                    /\ trace' = Append(trace, Ev("close", cameras[cam], None,
                                                 playback_stream))
               ELSE UNCHANGED <<closes, trace>>
            /\ load_times' = AppendSample(load_times, cameras[cam], load_time)
            /\ IF cam < Len(cameras)
               THEN cam' = cam + 1 /\ pc' = "playback" /\ UNCHANGED i
               ELSE i' = i + 1 /\ pc' = RoundLoopHead /\ UNCHANGED cam
            /\ UNCHANGED <<report, exc, exit_code>>
  /\ UNCHANGED <<cfgvars, clockvars, exchanges, auth_key, playback_stream,
                 sessionvars>>

\* line 171
SortTimes_none(s) == s

SortTimes(s) == SortSeq(s, LAMBDA a, b : a < b)

\* statistics.median of a sorted non-empty list, then int(. * 1000)
MedianMs_upper(sorted) == IntMs(sorted[Len(sorted) \div 2 + 1])

MedianMs(sorted) ==
  LET n == Len(sorted)
  IN IF n % 2 = 1
     THEN IntMs(sorted[(n + 1) \div 2])
     ELSE (sorted[n \div 2] + sorted[n \div 2 + 1]) \div 2000

\* lines 171-176 for one camera
CameraReport(camera, times, nruns) ==
  LET sorted == SortTimes(times)
  IN [camera |-> camera,
      min |-> IntMs(sorted[1]),
      max |-> IntMs(sorted[Len(sorted)]),
      median |-> MedianMs(sorted),
      avg |-> SumSeq(sorted) \div (1000 * nruns)]

\* lines 170-180: all rounds are done; sort, report, return to main
Report ==
  /\ cmd = "latency"
  /\ pc = "round"
  /\ i >= runs
  /\ load_times' = [c \in Range(cameras) |-> SortTimes(load_times[c])]
  /\ report' = [x \in DOMAIN cameras |->
                  CameraReport(cameras[x], load_times[cameras[x]], runs)]
  /\ Propagate("none")
  /\ UNCHANGED <<cfgvars, clockvars, exchanges, auth_key, playback_stream,
                 closes, sessionvars, i, cam, trace>>

\* ---- the program ---------------------------------------------------------
Next ==
  \/ Authenticate
  \/ Authorize
  \/ StreamOpen
  \/ ReadChunk
  \/ EndOfStream
  \/ StreamError
  \/ RoundStart
  \/ LatencyOpen
  \/ ReadFirstByte
  \/ Report
  \/ Interrupt

Spec == Init /\ [][Next]_vars

\* the stream command alone (lines 245-263)
InitStream == Init /\ cmd = "stream"

NextStream ==
  \/ Authenticate
  \/ Authorize
  \/ StreamOpen
  \/ ReadChunk
  \/ EndOfStream
  \/ StreamError
  \/ Interrupt

SpecStream == InitStream /\ [][NextStream]_vars

\* the latency command alone (lines 264-284)
InitLatency == Init /\ cmd = "latency"

NextLatency ==
  \/ Authenticate
  \/ Authorize
  \/ RoundStart
  \/ LatencyOpen
  \/ ReadFirstByte
  \/ Report
  \/ Interrupt

SpecLatency == InitLatency /\ [][NextLatency]_vars

TypeOK ==
  /\ pc \in {"authenticate", "authorize", "playback", "streaming", "round",
             "read_first_byte", "exited"}
  /\ exit_code \in {"running", "0", "-1", "uncaught"}
  /\ failed_iterations \in Nat
  /\ Len(chunks) <= MaxChunks

\* ---- properties ----------------------------------------------------------
Last(s) == s[Len(s)]

IsPlayback(e) == e.ev = "playback"

Playbacks == SelectSeq(trace, IsPlayback)

\* the events a step appends to the trace
NewEvents == SubSeq(trace', Len(trace) + 1, Len(trace'))

\* number of failed playback requests in t[1..j] since the last successful one
RECURSIVE FailuresBefore(_, _)
FailuresBefore(t, j) ==
  IF j = 0 THEN 0
  ELSE IF t[j].ev # "playback" THEN FailuresBefore(t, j - 1)
  ELSE IF t[j].n = HTTP_OK THEN 0
  ELSE 1 + FailuresBefore(t, j - 1)

\* C1: in stream_repeatedly every playback request that fails (non-200) is
\* directly followed by a sleep of 2^k seconds, k the number of consecutive
\* failures before it (1s, 2s, 4s, ...), the failure does not end the
\* streamer, and failed_iterations is 0 right after a successful open.
C1_BackoffSchedule ==
  cmd = "stream" =>
    /\ \A x \in DOMAIN trace :
         (trace[x].ev = "playback" /\ trace[x].n # HTTP_OK) =>
           /\ x < Len(trace)
           /\ trace[x + 1] = Ev("sleep", "", None,
                                2 ^ FailuresBefore(trace, x - 1))
           /\ exc # "Playback failed"
    /\ (trace # <<>> /\ Last(trace).ev = "playback"
          /\ Last(trace).n = HTTP_OK) => failed_iterations = 0

\* C2: in stream_repeatedly a step in which the open stream fails with an I/O
\* error does not end the streamer: it goes back to the credential exchange.
C2_IoErrorReconnects ==
  [][(cmd = "stream" /\ \E x \in DOMAIN NewEvents : NewEvents[x].ev = "io_error")
       => pc' = "authenticate"]_vars

\* C3: no stream is closed twice, and when the process has exited every
\* stream that make_playback_request returned has been closed exactly once.
C3_ClosedExactlyOnce ==
  /\ \A h \in DOMAIN closes : closes[h] <= 1
  /\ pc = "exited" => \A h \in DOMAIN closes : closes[h] = 1

\* C4: in stream_repeatedly an authorize response without the auth_key cookie
\* is the last thing that happens: the streamer has returned, and no playback
\* request, sleep or credential exchange follows it.
C4_EmptyTokenStopsStreamer ==
  cmd = "stream" =>
    \A x \in DOMAIN trace :
      trace[x] = Ev("authorize", "", None, HTTP_OK) =>
        /\ x = Len(trace)
        /\ pc = "exited"
        /\ exc = "none"

C4_Witness ==
  /\ cmd = "stream"
  /\ Len(closes) >= 1
  /\ Last(trace) = Ev("authorize", "", None, HTTP_OK)
  /\ pc = "exited"

\* C5: in test_latency, once the credential exchange has returned no token,
\* no playback request is issued, no sample is recorded, no report is emitted.
C5_EmptyTokenAbortsLatency ==
  cmd = "latency" =>
    \A x \in DOMAIN trace :
      trace[x] = Ev("authorize", "", None, HTTP_OK) =>
        /\ \A y \in DOMAIN trace : trace[y].ev # "playback"
        /\ \A c \in Range(cameras) : load_times[c] = <<>>
        /\ report = <<>>

\* C6: stream_repeatedly stops only for an external interrupt or for the
\* empty token (a failure of the credential exchange itself aside): neither
\* a rejected playback request nor a mid-stream I/O error ends it.
C6_StopsOnlyOnInterruptOrEmptyToken ==
  (cmd = "stream" /\ pc = "exited") =>
    exc \in {"KeyboardInterrupt", "none", "Authentication failed",
             "Authorization failed"}

\* C7: the stream command exits with status zero only when it was cancelled
\* by an external interrupt.
C7_ZeroExitOnlyOnInterrupt ==
  (cmd = "stream" /\ exit_code = "0") => exc = "KeyboardInterrupt"

\* C8: within one session of stream_repeatedly the n-th chunk gets sequence
\* number n, total_size is the sum of the lengths of the chunks read so far,
\* and the session's summary line reports that sum.
C8_SequenceAndTotal ==
  cmd = "stream" =>
    /\ \A n \in DOMAIN chunks : chunks[n].seq = n
    /\ total_size = SumLens(chunks)
    /\ \A x \in DOMAIN printed :
         printed[x].kind = "summary" =>
           printed[x].n = SumLens(chunks) /\ printed[x].chunk = Len(chunks)

C8_Witness ==
  /\ cmd = "stream"
  /\ Len(closes) = 2
  /\ Len(chunks) = 3
  /\ chunks[1].len # chunks[3].len
  /\ printed # <<>>
  /\ Last(printed).kind = "summary"

\* C9: chunk n of the session has a slow-chunk line (exactly one) if and only
\* if its inter-arrival time is at least 5000 whole milliseconds.
C9_SlowChunkIff ==
  cmd = "stream" =>
    \A n \in DOMAIN chunks :
      LET lines == {x \in DOMAIN printed :
                      printed[x].kind = "slow" /\ printed[x].chunk = n}
      IN /\ Cardinality(lines) <= 1
         /\ lines # {} <=> chunks[n].us >= SLOW_FETCH_THRESHOLD_MS * 1000

\* chunks of 10240, 10240, 5000 bytes after 10ms, 6000ms, 20ms: one slow-chunk
\* line, for chunk 2, and a summary of 25480 bytes
C9_Witness ==
  /\ cmd = "stream"
  /\ chunks = <<[seq |-> 1, len |-> 10240, us |-> 10000],
                [seq |-> 2, len |-> 10240, us |-> 6000000],
                [seq |-> 3, len |-> 5000, us |-> 20000]>>
  /\ printed = <<[kind |-> "slow", chunk |-> 2, n |-> 6000],
                 [kind |-> "summary", chunk |-> 3, n |-> 25480]>>

\* C10: when test_latency has completed, every camera has exactly `runs`
\* samples, there were runs * |cameras| playback requests, the k-th of them
\* for the camera at position ((k-1) mod |cameras|) + 1 of the registry, and
\* each request's stream was read and closed before the next request.
C10_RoundMajorOrder ==
  (cmd = "latency" /\ pc = "exited" /\ exc = "none") =>
    /\ \A c \in Range(cameras) : Len(load_times[c]) = runs
    /\ Len(Playbacks) = runs * Len(cameras)
    /\ \A k \in DOMAIN Playbacks :
         Playbacks[k].cam = cameras[((k - 1) % Len(cameras)) + 1]
    /\ \A x \in DOMAIN trace :
         trace[x].ev = "playback" =>
           x < Len(trace) /\ trace[x + 1].ev = "close"

C10_Witness ==
  /\ cmd = "latency"
  /\ pc = "exited"
  /\ exc = "none"
  /\ runs >= 3
  /\ Len(cameras) = 2
  /\ Len(report) = 2

\* ---- reference statistics of a sample sequence, in any order -------------
\* the k-th smallest sample, by counting
KthSmallest(s, k) ==
  CHOOSE v \in Range(s) :
    /\ Cardinality({x \in DOMAIN s : s[x] < v}) < k
    /\ k <= Cardinality({x \in DOMAIN s : s[x] <= v})

\* twice the standard median
TwiceMedian(s) ==
  LET n == Len(s)
  IN IF n % 2 = 1
     THEN 2 * KthSmallest(s, (n + 1) \div 2)
     ELSE KthSmallest(s, n \div 2) + KthSmallest(s, n \div 2 + 1)

\* a is the whole-millisecond part of sum(s) / nruns
IsMeanMs(a, s, nruns) ==
  /\ a * 1000 * nruns <= SumSeq(s)
  /\ SumSeq(s) < (a + 1) * 1000 * nruns

\* C11: the report test_latency prints has one entry per camera, in registry
\* order, and the entry's min, max, median and avg are the whole milliseconds
\* of the smallest sample, the largest sample, the standard median and
\* sum(samples) / runs of the camera's samples as they were recorded.
C11_ReportIsReference ==
  [][(cmd = "latency" /\ report' # report) =>
       /\ Len(report') = Len(cameras)
       /\ \A x \in DOMAIN cameras :
            LET s == load_times[cameras[x]]
                r == report'[x]
            IN /\ r.camera = cameras[x]
               /\ r.min = KthSmallest(s, 1) \div 1000
               /\ r.max = KthSmallest(s, Len(s)) \div 1000
               /\ r.median = TwiceMedian(s) \div 2000
               /\ IsMeanMs(r.avg, s, runs)]_vars

\* runs = 3, one camera "front", latencies of 100, 300 and 200 ms
C11_Witness ==
  /\ cmd = "latency"
  /\ runs = 3
  /\ cameras = <<"front">>
  /\ load_times["front"] = <<100000, 200000, 300000>>
  /\ report = <<[camera |-> "front", min |-> 100, max |-> 300,
                 median |-> 200, avg |-> 200]>>

\* C12: every entry of the report has min <= median <= max and
\* min <= avg <= max, in whole milliseconds.
C12_ReportOrdered ==
  \A x \in DOMAIN report :
    /\ report[x].min <= report[x].median
    /\ report[x].median <= report[x].max
    /\ report[x].min <= report[x].avg
    /\ report[x].avg <= report[x].max

\* three runs whose mean, 133.33 ms, falls between two whole milliseconds
C12_Witness ==
  /\ cmd = "latency"
  /\ runs = 3
  /\ report # <<>>
  /\ load_times[cameras[1]] = <<100000, 100000, 200000>>
  /\ report[1].min = 100
  /\ report[1].median = 100
  /\ report[1].avg = 133
  /\ report[1].max = 200

\* C13: in test_latency a playback request answered with a status other than
\* 200 is the last thing that happens: the run ends with the playback failure
\* raised to main (exit status -1), no request or sleep follows, and no report
\* is printed, whatever samples were already recorded.
C13_PlaybackFailureAbortsRun ==
  cmd = "latency" =>
    \A x \in DOMAIN trace :
      (trace[x].ev = "playback" /\ trace[x].n # HTTP_OK) =>
        /\ x = Len(trace)
        /\ pc = "exited"
        /\ exc = "Playback failed"
        /\ exit_code = "-1"
        /\ report = <<>>

\* the second camera fails in a later round, after samples were recorded
C13_Witness ==
  /\ cmd = "latency"
  /\ exc = "Playback failed"
  /\ i >= 1
  /\ cam = 2
  /\ \A c \in Range(cameras) : load_times[c] # <<>>
  /\ Last(trace).ev = "playback"
  /\ trace[Len(trace) - 1].ev = "close"

IsSleep(e) == e.ev = "sleep"

IsAuthenticate(e) == e.ev = "authenticate"

IsAuthorize(e) == e.ev = "authorize"

\* C14: in stream_repeatedly every playback request comes directly after an
\* authenticate and an authorize request that both succeeded, it carries the
\* token that authorize returned, and no other playback request carries it.
C14_FreshTokenPerAttempt ==
  cmd = "stream" =>
    \A x \in DOMAIN trace :
      trace[x].ev = "playback" =>
        /\ x >= 3
        /\ trace[x].key # None
        /\ trace[x - 1] = Ev("authorize", "", trace[x].key, HTTP_OK)
        /\ trace[x - 2] = Ev("authenticate", "", None, HTTP_OK)
        /\ \A y \in DOMAIN trace :
             (y # x /\ trace[y].ev = "playback") => trace[y].key # trace[x].key

C14_Witness ==
  /\ cmd = "stream"
  /\ Len(Playbacks) >= 2
  /\ pc = "streaming"

\* C15: test_latency makes one credential exchange, as the first two requests
\* of the run, and every playback request carries the token it returned.
C15_OneTokenPerRun ==
  cmd = "latency" =>
    /\ Len(SelectSeq(trace, IsAuthenticate)) <= 1
    /\ Len(SelectSeq(trace, IsAuthorize)) <= 1
    /\ exchanges <= 1
    /\ \A x \in DOMAIN trace :
         trace[x].ev = "playback" =>
           /\ x >= 3
           /\ trace[1] = Ev("authenticate", "", None, HTTP_OK)
           /\ trace[2] = Ev("authorize", "", trace[x].key, HTTP_OK)
           /\ trace[x].key = auth_key

C15_Witness ==
  /\ cmd = "latency"
  /\ i >= 2
  /\ Len(Playbacks) >= 4
  /\ auth_key # None

\* C16: in stream_repeatedly the close that ends a session follows the
\* session's summary line, closes the stream once, leaves failed_iterations
\* at 0, and the next thing the streamer does is the authenticate request of
\* a new credential exchange, with no sleep in between.
C16_CleanEndReconnects ==
  cmd = "stream" =>
    /\ \A x \in DOMAIN trace :
         trace[x].ev = "close" =>
           /\ closes[trace[x].n] = 1
           /\ x < Len(trace) => trace[x + 1].ev = "authenticate"
    /\ (trace # <<>> /\ Last(trace).ev = "close") =>
         /\ failed_iterations = 0
         /\ printed # <<>>
         /\ Last(printed).kind = "summary"
         /\ pc \in {"authenticate", "exited"}
         /\ pc = "exited" => exc = "KeyboardInterrupt"

C16_Witness ==
  /\ cmd = "stream"
  /\ Len(chunks) >= 1
  /\ Len(trace) >= 5
  /\ trace[Len(trace) - 1].ev = "close"
  /\ Last(trace) = Ev("authenticate", "", None, HTTP_OK)

\* number of playback requests in t[1..j]
RECURSIVE PlaybacksBefore(_, _)
PlaybacksBefore(t, j) ==
  IF j = 0 THEN 0
  ELSE PlaybacksBefore(t, j - 1) + (IF t[j].ev = "playback" THEN 1 ELSE 0)

\* number of sleeps in t[1..j]
RECURSIVE SleepsUpTo(_, _)
SleepsUpTo(t, j) ==
  IF j = 0 THEN 0
  ELSE SleepsUpTo(t, j - 1) + (IF t[j].ev = "sleep" THEN 1 ELSE 0)

\* C17: in test_latency the k-th sleep lasts delay_between_runs_seconds and
\* comes after exactly k full rounds of playback requests, directly after the
\* close of the last camera of round k-1 and directly before the first
\* camera's request of round k; a completed run of R rounds has slept R-1
\* times.
C17_SleepBetweenRounds ==
  cmd = "latency" =>
    /\ \A x \in DOMAIN trace :
         trace[x].ev = "sleep" =>
           /\ trace[x].n = delay_between_runs_seconds
           /\ SleepsUpTo(trace, x) < runs
           /\ PlaybacksBefore(trace, x) = SleepsUpTo(trace, x) * Len(cameras)
           /\ cameras # <<>> =>
                /\ trace[x - 1].ev = "close"
                /\ x < Len(trace) => trace[x + 1].ev = "playback"
    /\ (pc = "exited" /\ exc = "none") =>
         Len(SelectSeq(trace, IsSleep)) = runs - 1

C17_Witness ==
  /\ cmd = "latency"
  /\ pc = "exited"
  /\ exc = "none"
  /\ runs = 3
  /\ Len(cameras) = 2
  /\ Len(SelectSeq(trace, IsSleep)) = 2

\* C19: get_auth_key sends one authenticate request per call; a status other
\* than 200 raises at once and no authorize request follows; otherwise one
\* authorize request follows, a status other than 200 of which raises; when
\* both are 200 the cookie is returned, None included, and nothing is raised.
C19_NoRetryInExchange ==
  /\ Len(SelectSeq(trace, IsAuthenticate)) = exchanges
  /\ Len(SelectSeq(trace, IsAuthorize)) <= exchanges
  /\ \A x \in DOMAIN trace :
       trace[x].ev = "authenticate" =>
         IF trace[x].n # HTTP_OK
         THEN x = Len(trace) /\ pc = "exited" /\ exc = "Authentication failed"
         ELSE /\ x < Len(trace) => trace[x + 1].ev = "authorize"
              /\ x = Len(trace) =>
                   (pc = "authorize" \/ exc = "KeyboardInterrupt")
  /\ \A x \in DOMAIN trace :
       trace[x].ev = "authorize" =>
         /\ x >= 2
         /\ trace[x - 1] = Ev("authenticate", "", None, HTTP_OK)
         /\ IF trace[x].n # HTTP_OK
            THEN x = Len(trace) /\ pc = "exited" /\ exc = "Authorization failed"
            ELSE x = Len(trace) =>
                   /\ auth_key = trace[x].key
                   /\ exc \in {"none", "KeyboardInterrupt"}

\* authorize answered 200 without the cookie and test_latency goes on
C19_Witness ==
  /\ cmd = "latency"
  /\ trace # <<>>
  /\ Last(trace) = Ev("authorize", "", None, HTTP_OK)
  /\ pc = "round"
  /\ exc = "none"

\* a step that issues a playback request
NewPlayback == \E x \in DOMAIN NewEvents : NewEvents[x].ev = "playback"

\* C18 as stated: the start marker of every call of make_playback_request
\* is larger than the marker of the call before it.
C18_MarkersStrictlyIncrease ==
  [][(NewPlayback /\ Playbacks # <<>>) => start_time' > start_time]_vars

\* C18 as amended: the marker is the whole second of the wall clock at the
\* call; with a wall clock that does not step back the marker of a call is
\* never smaller than that of the call before, it is larger when the calls
\* are a second or more apart, and it is the same when both calls fall into
\* the same whole second.
C18_MarkerIsWholeSecond ==
  [][NewPlayback =>
       /\ start_time' * TicksPerSecond <= now'
       /\ now' < (start_time' + 1) * TicksPerSecond
       /\ Playbacks # <<>> =>
            /\ start_time' >= start_time
            /\ now' - now >= TicksPerSecond => start_time' > start_time
            /\ (\E k \in 0..now' : /\ k * TicksPerSecond <= now
                                   /\ now' < (k + 1) * TicksPerSecond)
                 => start_time' = start_time]_vars

\* two calls within the first second of the process, both with marker 0
C18_Witness ==
  /\ Len(Playbacks) >= 2
  /\ now = 1
  /\ start_time = 0

====
